---- MODULE Spec2Model ----
(***************************************************************************)
(* The draw-pool batcher of src/client/tile.h (DrawPool, second half of    *)
(* the file): pools of DrawObjects, add / addRepeated / addAction, use,    *)
(* the content hash of framed pools, and the two-phase draw(); and the     *)
(* Tile of the first half: CountFlag and the completely-covered cache.     *)
(***************************************************************************)
EXTENDS Integers, Sequences, FiniteSets, TLC

(* ------------------------------------------------------------------ *)
(* Bounds of the model                                                 *)
(* ------------------------------------------------------------------ *)
\* operations (use, add*, addAction, setEnable) per frame of Spec
MaxOps == 2
\* draw() calls in a run of Spec
MaxFrames == 3
\* operations in a run of SpecBatch
MaxBatchOps == 4
\* draw() calls in a run of SpecBatch
MaxBatchFrames == 1
\* width in bits of the modelled size_t of the content hash
HashBits == 12
\* distinct callbacks handed to addAction
MaxActions == 2
\* operations in a run of SpecCalls
MaxCallOps == 3
\* operations in a run of SpecFlush
MaxFlushOps == 4
\* operations per frame, and draw() calls, in a run of SpecCache
MaxCacheOps == 4
MaxCacheFrames == 2
\* things on the stack of the tile of SpecTile
MaxStack == 2
\* the highest floor of SpecTile (Otc::MAX_Z in the program)
MaxFloor == 1

HashMod == 2 ^ HashBits

(* ------------------------------------------------------------------ *)
(* Value types                                                         *)
(* ------------------------------------------------------------------ *)
\* Textures are identified by their id (1 and 2); 0 is the null TexturePtr.
\* Texture::isOpaque and Texture::canSuperimposed of the two textures the
\* model draws with: texture 1 is opaque and can be superimposed, 2 is neither.
isOpaque(t) == t = 1
canSuperimposed(t) == t = 1

\* Color::white, as its rgba() value modulo the hash width
White == HashMod - 1

CompositionMode_Normal == 0

\* A value-initialised Painter::PainterState, the state of an action object
\* (DrawObject{ {}, DrawMode::None, {}, action }).
DefaultState ==
    [texture |-> 0, color |-> White, clipRect |-> 0,
     compositionMode |-> CompositionMode_Normal, opacity |-> 100,
     alphaWriting |-> TRUE, shaderProgram |-> FALSE]

\* Rects and Points are identified with small naturals; 0 is the null Point /
\* the invalid (empty) Rect.  Rect::hash and Point::hash of such a value:
RectHash(r) == (37 * r) % HashMod
PointHash(p) == (41 * p) % HashMod

\* Pool::DrawMethod{type}: every other field value-initialised
NewMethod(type) ==
    [type |-> type, rects |-> <<0, 0>>, dest |-> 0,
     points |-> <<0, 0, 0>>, intValue |-> 0, hash |-> 0]

NoAction == 0

\* Pool::DrawObject{state, drawMode, drawMethods, action}
NewObject(state, drawMode, methods, action) ==
    [state |-> state, drawMode |-> drawMode, drawMethods |-> methods,
     action |-> action]

(* ------------------------------------------------------------------ *)
(* Sequence helpers                                                    *)
(* ------------------------------------------------------------------ *)
\* vector::erase of the element at (1-based) position i
EraseAt(s, i) == [k \in 1..(Len(s) - 1) |-> IF k < i THEN s[k] ELSE s[k + 1]]

\* first position of s satisfying Test, 0 when there is none
FirstIndex(s, Test(_)) ==
    IF \E i \in 1..Len(s) : Test(s[i])
    THEN CHOOSE i \in 1..Len(s) :
             Test(s[i]) /\ \A j \in 1..(i - 1) : ~Test(s[j])
    ELSE 0

RECURSIVE Xor(_, _)
Xor(a, b) ==
    IF a = 0 THEN b
    ELSE IF b = 0 THEN a
    ELSE ((a + b) % 2) + 2 * Xor(a \div 2, b \div 2)

(* ------------------------------------------------------------------ *)
(* Content hash                                                        *)
(* ------------------------------------------------------------------ *)
\* low bits of boost's 0x9e3779b9
Golden == 3635641 % HashMod

\* boost::hash_combine(seed, v): seed ^= v + 0x9e3779b9 + (seed<<6) + (seed>>2)
hash_combine(seed, v) ==
    Xor(seed, (v + Golden + seed * 64 + seed \div 4) % HashMod)

\* std::hash<size_t> and std::hash<float> (identity on the modelled values)
HASH_INT(v) == v % HashMod
HASH_FLOAT(v) == v % HashMod

\* fold v into h when cond holds
FoldIf(cond, h, v) == IF cond THEN hash_combine(h, v) ELSE h

\* the local `hash` that updateHash computes for one (state, method)
MethodHash(state, method) ==
    LET h1 == FoldIf(state.texture # 0, 0, HASH_INT(state.texture))
        h2 == FoldIf(state.opacity < 100, h1, HASH_FLOAT(state.opacity))
        h3 == FoldIf(state.color # White, h2, HASH_INT(state.color))
        h4 == FoldIf(state.compositionMode # CompositionMode_Normal, h3,
                     HASH_INT(state.compositionMode))
        h5 == FoldIf(state.clipRect # 0, h4, RectHash(state.clipRect))
        h6 == FoldIf(method.rects[1] # 0, h5, RectHash(method.rects[1]))
        h7 == FoldIf(method.rects[2] # 0, h6, RectHash(method.rects[2]))
        h8 == FoldIf(method.points[1] # 0, h7, PointHash(method.points[1]))
        h9 == FoldIf(method.points[2] # 0, h8, PointHash(method.points[2]))
        h10 == FoldIf(method.points[3] # 0, h9, PointHash(method.points[3]))
        h11 == FoldIf(method.intValue # 0, h10, HASH_INT(method.intValue))
    IN  FoldIf(method.hash # 0, h11, method.hash)

\* updateHash without the shader test: the auto-update flag is never set
updateHash_NoAutoUpdate(pool, state, method) ==
    IF ~pool.framed THEN pool
    ELSE [pool EXCEPT
            !.m_status = <<@[1], hash_combine(@[2], MethodHash(state, method))>>]

\* updateHash without the test for a framebuffer: every pool is hashed
updateHash_AllPools(pool, state, method) ==
    [pool EXCEPT
        !.m_autoUpdate = IF state.shaderProgram THEN TRUE ELSE @,
        !.m_status = <<@[1], hash_combine(@[2], MethodHash(state, method))>>]

\* DrawPool::updateHash applied to the current pool (a pool record)
updateHash(pool, state, method) ==
    IF ~pool.framed THEN pool
    ELSE [pool EXCEPT
            !.m_autoUpdate = IF state.shaderProgram THEN TRUE ELSE @,
            !.m_status = <<@[1], hash_combine(@[2], MethodHash(state, method))>>]

(* ------------------------------------------------------------------ *)
(* Pools                                                               *)
(* ------------------------------------------------------------------ *)
\* The pool table m_pools, in PoolType order; the last entry is
\* PoolType::UNKNOW, the pool init() creates and selects.
PoolIds == 1..3
UNKNOW == Cardinality(PoolIds)
\* the pools made with createPoolF (they own a framebuffer)
FramedIds == {1}

\* Pool::resetState: the clean baseline of a pool's working state
BaseState ==
    [clipRect |-> 0, compositionMode |-> CompositionMode_Normal,
     opacity |-> 100, alphaWriting |-> TRUE, shaderProgram |-> FALSE]

\* createPool / createPoolF: a pool after construction
NewPool(isFramed) ==
    [framed |-> isFramed, m_enabled |-> TRUE, m_objects |-> <<>>,
     m_state |-> BaseState, m_indexToStartSearching |-> 0,
     m_status |-> <<0, 0>>, m_autoUpdate |-> FALSE,
     m_dest |-> 0, m_src |-> 0,
     m_beforeDraw |-> isFramed, m_afterDraw |-> FALSE]

\* FramedPool::hasModification
hasModification(pool) ==
    pool.m_status[1] # pool.m_status[2] \/ pool.m_autoUpdate

\* FramedPool::updateStatus
updateStatus(pool) == [pool EXCEPT !.m_status = <<@[2], @[2]>>]

\* FramedPool::resetCurrentStatus
resetCurrentStatus(pool) == [pool EXCEPT !.m_status = <<@[1], 0>>]

\* Pool::resetState
resetState(pool) == [pool EXCEPT !.m_state = BaseState]

(* ------------------------------------------------------------------ *)
(* add / addRepeated / addAction on the current pool                   *)
(* ------------------------------------------------------------------ *)
\* the test of the erase loop of add on one earlier method of prevObj
Superseded(prevObj, prevMtd, state, method) ==
    /\ prevMtd.dest = method.dest
    /\ \/ (prevObj.state = state /\ prevMtd.rects[2] = method.rects[2])
       \/ (isOpaque(state.texture) /\ canSuperimposed(prevObj.state.texture))

\* add without the erase loop
EraseSuperseded_None(prevObj, state, method) == prevObj

\* the erase loop of add: prevObj without the first superseded method
EraseSuperseded(prevObj, state, method) ==
    LET Hit(m) == Superseded(prevObj, m, state, method)
        i == FirstIndex(prevObj.drawMethods, Hit)
    IN  IF method.dest # 0 /\ i # 0
        THEN [prevObj EXCEPT !.drawMethods = EraseAt(@, i)]
        ELSE prevObj

\* add without the merge into the trailing object: always a new DrawObject
AddToList_NoMerge(list, state, method, drawMode) ==
    Append(list, NewObject(state, drawMode, <<method>>, NoAction))

\* add comparing the states without their texture
AddToList_IgnoreTexture(list, state, method, drawMode) ==
    IF list # <<>>
          /\ [list[Len(list)].state EXCEPT !.texture = state.texture] = state
    THEN [list EXCEPT ![Len(list)].drawMode = "Triangles",
                      ![Len(list)].drawMethods = Append(@, method)]
    ELSE Append(list, NewObject(state, drawMode, <<method>>, NoAction))

\* add merging the method in front of the trailing object's methods
AddToList_MergeFront(list, state, method, drawMode) ==
    IF list # <<>> /\ list[Len(list)].state = state
    THEN [list EXCEPT ![Len(list)].drawMethods = <<method>> \o @,
                      ![Len(list)].drawMode = "Triangles"]
    ELSE Append(list, NewObject(state, drawMode, <<method>>, NoAction))

\* add running its erase loop over every object of the list
AddToList_ScanWhole(list, state, method, drawMode) ==
    LET swept == [k \in 1..Len(list) |->
                    EraseSuperseded(list[k], state, method)]
    IN  IF list # <<>> /\ list[Len(list)].state = state
        THEN [swept EXCEPT ![Len(list)].drawMode = "Triangles",
                           ![Len(list)].drawMethods = Append(@, method)]
        ELSE Append(swept, NewObject(state, drawMode, <<method>>, NoAction))

\* the object list after DrawPool::add (past updateHash)
AddToList(list, state, method, drawMode) ==
    IF list # <<>>
    THEN LET n == Len(list)
             prevObj == EraseSuperseded(list[n], state, method)
         IN  IF prevObj.state = state
             THEN [list EXCEPT ![n] =
                     [prevObj EXCEPT !.drawMode = "Triangles",
                                     !.drawMethods = Append(@, method)]]
             ELSE Append([list EXCEPT ![n] = prevObj],
                         NewObject(state, drawMode, <<method>>, NoAction))
    ELSE Append(list, NewObject(state, drawMode, <<method>>, NoAction))

\* DrawPool::add on a pool record
add(pool, state, method, drawMode) ==
    LET hashed == updateHash(pool, state, method)
    IN  [hashed EXCEPT !.m_objects = AddToList(@, state, method, drawMode)]

\* startIndex of addRepeated (0-based, as in the code)
StartIndex(pool) ==
    IF pool.m_indexToStartSearching # 0
    THEN pool.m_indexToStartSearching - 1
    ELSE 0

\* std::find_if from begin() + startIndex: the (1-based) position of the
\* first object at or after startIndex whose state equals state, 0 for end()
FindFrom(list, startIndex, state) ==
    IF \E i \in (startIndex + 1)..Len(list) : list[i].state = state
    THEN CHOOSE i \in (startIndex + 1)..Len(list) :
            /\ list[i].state = state
            /\ \A j \in (startIndex + 1)..(i - 1) : list[j].state # state
    ELSE 0

\* addRepeated looking at the trailing object only
AddRepeatedToList_TrailingOnly(list, startIndex, state, method, drawMode) ==
    IF list # <<>> /\ list[Len(list)].state = state
    THEN [list EXCEPT ![Len(list)].drawMethods = Append(@, method)]
    ELSE Append(list, NewObject(state, drawMode, <<method>>, NoAction))

\* the object list after DrawPool::addRepeated (past updateHash)
AddRepeatedToList(list, startIndex, state, method, drawMode) ==
    LET itFind == FindFrom(list, startIndex, state)
    IN  IF itFind # 0
        THEN [list EXCEPT ![itFind].drawMethods = Append(@, method)]
        ELSE Append(list, NewObject(state, drawMode, <<method>>, NoAction))

\* DrawPool::addRepeated on a pool record; begin() + startIndex must not
\* lie past end() (see AddRepeatedPastEnd)
addRepeated(pool, state, method, drawMode) ==
    LET hashed == updateHash(pool, state, method)
    IN  [hashed EXCEPT !.m_objects =
            AddRepeatedToList(@, StartIndex(pool), state, method, drawMode)]

\* DrawPool::addAction on a pool record
addAction(pool, action) ==
    [pool EXCEPT !.m_objects =
        Append(@, NewObject(DefaultState, "None", <<>>, action))]

\* Pool::startPosition: remember where the next addRepeated searches from
startPosition(pool) ==
    [pool EXCEPT !.m_indexToStartSearching = Len(pool.m_objects)]

\* use without resetCurrentStatus: the running hash is never restarted
use_NoStatusReset(pool) == resetState(pool)

\* use leaving the working state of the selected pool as it is
use_NoStateReset(pool) ==
    IF pool.framed THEN resetCurrentStatus(pool) ELSE pool

\* DrawPool::use(const PoolPtr&) on the selected pool's record
use(pool) ==
    LET reset == resetState(pool)
    IN  IF reset.framed THEN resetCurrentStatus(reset) ELSE reset

\* DrawPool::use(const PoolFramedPtr&, dest, src) on the selected pool's record
useFramed(pool, dest, src) ==
    [use(pool) EXCEPT !.m_dest = dest, !.m_src = src,
                      !.m_state.alphaWriting = FALSE]

(* ------------------------------------------------------------------ *)
(* draw                                                                *)
(* ------------------------------------------------------------------ *)
\* one observable step of a draw() call
Event(ev, p, arg) == [ev |-> ev, pool |-> p, arg |-> arg]

\* drawObject returning early for an action object without invoking it
drawObject_SkipAction(p, obj) ==
    IF obj.action # NoAction \/ obj.drawMethods = <<>> THEN <<>>
    ELSE <<Event("drawCoords", p, obj)>>

\* DrawPool::drawObject: what replaying one object does
drawObject(p, obj) ==
    IF obj.action # NoAction THEN <<Event("action", p, obj.action)>>
    ELSE IF obj.drawMethods = <<>> THEN <<>>
    ELSE <<Event("drawCoords", p, obj)>>

\* for(auto& obj : pool->m_objects) drawObject(obj)
RECURSIVE drawObjects(_, _)
drawObjects(p, list) ==
    IF list = <<>> THEN <<>>
    ELSE drawObject(p, Head(list)) \o drawObjects(p, Tail(list))

\* the body of the pre-draw loop for pool p: <<pool after, events>>
PreDrawPool(p, pool) ==
    IF ~pool.m_enabled \/ ~pool.framed THEN <<pool, <<>>>>
    ELSE IF hasModification(pool)
    THEN <<updateStatus(pool),
           IF pool.m_objects # <<>>
           THEN <<Event("bind", p, 0)>> \o drawObjects(p, pool.m_objects)
                \o <<Event("release", p, 0)>>
           ELSE <<>>>>
    ELSE <<pool, <<>>>>

\* the body of the second loop of draw for pool p: <<pool after, events>>
CompositePool(p, pool) ==
    IF ~pool.m_enabled THEN <<pool, <<>>>>
    ELSE <<[pool EXCEPT !.m_objects = <<>>],
           IF pool.framed
           THEN <<Event("saveAndResetState", p, 0)>>
                \o (IF pool.m_beforeDraw THEN <<Event("beforeDraw", p, 0)>>
                    ELSE <<>>)
                \o <<Event("framebufferDraw", p, <<pool.m_dest, pool.m_src>>)>>
                \o (IF pool.m_afterDraw THEN <<Event("afterDraw", p, 0)>>
                    ELSE <<>>)
                \o <<Event("restoreSavedState", p, 0)>>
           ELSE drawObjects(p, pool.m_objects)>>

\* the events of a loop over the pool table from pool p on
RECURSIVE LoopEvents(_, _, _)
LoopEvents(Body(_, _), pools, p) ==
    IF p \notin PoolIds THEN <<>>
    ELSE Body(p, pools[p])[2] \o LoopEvents(Body, pools, p + 1)

\* draw with one loop: each pool is rebuilt and composited in turn
RECURSIVE OnePassEvents(_, _)
OnePassEvents(pools, p) ==
    IF p \notin PoolIds THEN <<>>
    ELSE PreDrawPool(p, pools[p])[2]
         \o CompositePool(p, PreDrawPool(p, pools[p])[1])[2]
         \o OnePassEvents(pools, p + 1)

draw_OnePass(pools) ==
    <<[p \in PoolIds |-> CompositePool(p, PreDrawPool(p, pools[p])[1])[1]],
      OnePassEvents(pools, 1)>>

\* DrawPool::draw: <<pool table after, events in order>>
draw(pools) ==
    LET pre == [p \in PoolIds |-> PreDrawPool(p, pools[p])[1]]
        post == [p \in PoolIds |-> CompositePool(p, pre[p])[1]]
    IN  <<post, LoopEvents(PreDrawPool, pools, 1)
                \o LoopEvents(CompositePool, pre, 1)>>

(* ------------------------------------------------------------------ *)
(* Inputs: the states and methods the callers of add / addRepeated     *)
(* (addTexturedRect, addFilledRect, addRepeatedTexturedRect, ...) make *)
(* ------------------------------------------------------------------ *)
TexState(tex, shader) ==
    [DefaultState EXCEPT !.texture = tex, !.shaderProgram = shader]

\* addTexturedRect(dest, texture, src, color, originalDest)
TexturedRect(destRect, srcRect, originalDest) ==
    [NewMethod("DRAW_TEXTURED_RECT") EXCEPT
        !.rects = <<destRect, srcRect>>, !.dest = originalDest]

\* addRepeatedTexturedRect(dest, texture, src, color)
RepeatedTexturedRect(destRect, srcRect) ==
    [NewMethod("DRAW_REPEATED_TEXTURED_RECT") EXCEPT
        !.rects = <<destRect, srcRect>>]

\* addFilledRect(dest, color)
FilledRect(destRect) ==
    [NewMethod("DRAW_FILLED_RECT") EXCEPT !.rects = <<destRect, 0>>]

\* addRepeatedFilledRect(dest, color)
RepeatedFilledRect(destRect) ==
    [NewMethod("DRAW_REPEATED_FILLED_RECT") EXCEPT !.rects = <<destRect, 0>>]

Call(state, method, mode) == [state |-> state, method |-> method, mode |-> mode]

\* calls of add in the batching specification
BatchAddCalls ==
    {Call(TexState(1, FALSE), m, "TriangleStrip") :
        m \in {TexturedRect(1, 1, 1), TexturedRect(1, 2, 1), TexturedRect(2, 1, 0)}}
    \cup {Call(TexState(2, FALSE), m, "TriangleStrip") :
        m \in {TexturedRect(1, 1, 1), TexturedRect(1, 2, 1), TexturedRect(2, 1, 0)}}
    \cup {Call(TexState(1, TRUE), TexturedRect(1, 1, 1), "TriangleStrip"),
          Call(DefaultState, FilledRect(1), "Triangles")}

\* calls of addRepeated in the batching specification
BatchRepeatedCalls ==
    {Call(TexState(1, FALSE), RepeatedTexturedRect(r, 1), "Triangles") :
        r \in {1, 2}}
    \cup {Call(TexState(2, FALSE), RepeatedTexturedRect(1, 1), "Triangles"),
          Call(DefaultState, RepeatedFilledRect(1), "Triangles")}

\* calls of add and addRepeated in the frame specification
FrameAddCalls ==
    {Call(TexState(1, FALSE), TexturedRect(1, 1, 1), "TriangleStrip"),
     Call(TexState(2, FALSE), TexturedRect(2, 1, 0), "TriangleStrip"),
     Call(TexState(1, TRUE), TexturedRect(1, 1, 1), "TriangleStrip")}

FrameRepeatedCalls ==
    {Call(TexState(1, FALSE), RepeatedTexturedRect(2, 1), "Triangles")}

Actions == 1..MaxActions
FrameActions == {1}

(* ------------------------------------------------------------------ *)
(* The drawing calls: addTexturedRect ... addBoundingRect              *)
(* ------------------------------------------------------------------ *)
\* Rect::isEmpty (the complement of Rect::isValid)
isEmpty(rect) == rect = 0

\* g_painter->getCurrentState(), the state generateState starts from
PainterCurrentState == DefaultState

\* DrawPool::generateState for the current pool (a pool record)
generateState(pool) ==
    [PainterCurrentState EXCEPT
        !.clipRect = pool.m_state.clipRect,
        !.compositionMode = pool.m_state.compositionMode,
        !.opacity = pool.m_state.opacity,
        !.alphaWriting = pool.m_state.alphaWriting,
        !.shaderProgram = pool.m_state.shaderProgram]

\* the methods the remaining calls build
UpsideDownTexturedRect(destRect, srcRect) ==
    [NewMethod("DRAW_UPSIDEDOWN_TEXTURED_RECT") EXCEPT
        !.rects = <<destRect, srcRect>>]

RepeatedTexturedRepeatedRect(destRect, srcRect) ==
    [NewMethod("DRAW_REPEATED_TEXTURED_REPEATED_RECT") EXCEPT
        !.rects = <<destRect, srcRect>>]

FilledTriangle(a, b, c) ==
    [NewMethod("DRAW_FILLED_TRIANGLE") EXCEPT !.points = <<a, b, c>>]

BoundingRect(destRect, innerLineWidth) ==
    [NewMethod("DRAW_BOUNDING_RECT") EXCEPT
        !.rects = <<destRect, 0>>, !.intValue = innerLineWidth]

\* addTexturedRect without the test for empty rects
addTexturedRect_NoCheck(pool, dest, texture, src, color, originalDest) ==
    add(pool, [generateState(pool) EXCEPT !.color = color, !.texture = texture],
        TexturedRect(dest, src, originalDest), "TriangleStrip")

\* DrawPool::addTexturedRect(dest, texture, src, color, originalDest)
addTexturedRect(pool, dest, texture, src, color, originalDest) ==
    IF isEmpty(dest) \/ isEmpty(src) THEN pool
    ELSE add(pool,
             [generateState(pool) EXCEPT !.color = color, !.texture = texture],
             TexturedRect(dest, src, originalDest), "TriangleStrip")

\* DrawPool::addUpsideDownTexturedRect(dest, texture, src, color)
addUpsideDownTexturedRect(pool, dest, texture, src, color) ==
    IF isEmpty(dest) \/ isEmpty(src) THEN pool
    ELSE add(pool,
             [generateState(pool) EXCEPT !.color = color, !.texture = texture],
             UpsideDownTexturedRect(dest, src), "TriangleStrip")

\* DrawPool::addRepeatedTexturedRect(dest, texture, src, color)
addRepeatedTexturedRect(pool, dest, texture, src, color) ==
    IF isEmpty(dest) \/ isEmpty(src) THEN pool
    ELSE addRepeated(pool,
             [generateState(pool) EXCEPT !.color = color, !.texture = texture],
             RepeatedTexturedRect(dest, src), "Triangles")

\* DrawPool::addRepeatedTexturedRepeatedRect(dest, texture, src, color)
addRepeatedTexturedRepeatedRect(pool, dest, texture, src, color) ==
    IF isEmpty(dest) \/ isEmpty(src) THEN pool
    ELSE addRepeated(pool,
             [generateState(pool) EXCEPT !.color = color, !.texture = texture],
             RepeatedTexturedRepeatedRect(dest, src), "Triangles")

\* DrawPool::addRepeatedFilledRect(dest, color)
addRepeatedFilledRect(pool, dest, color) ==
    IF isEmpty(dest) THEN pool
    ELSE addRepeated(pool, [generateState(pool) EXCEPT !.color = color],
                     RepeatedFilledRect(dest), "Triangles")

\* DrawPool::addFilledRect(dest, color)
addFilledRect(pool, dest, color) ==
    IF isEmpty(dest) THEN pool
    ELSE add(pool, [generateState(pool) EXCEPT !.color = color],
             FilledRect(dest), "Triangles")

\* DrawPool::addFilledTriangle(a, b, c, color)
addFilledTriangle(pool, a, b, c, color) ==
    IF a = b \/ a = c \/ b = c THEN pool
    ELSE add(pool, [generateState(pool) EXCEPT !.color = color],
             FilledTriangle(a, b, c), "Triangles")

\* DrawPool::addBoundingRect(dest, color, innerLineWidth)
addBoundingRect(pool, dest, color, innerLineWidth) ==
    IF isEmpty(dest) \/ innerLineWidth = 0 THEN pool
    ELSE add(pool, [generateState(pool) EXCEPT !.color = color],
             BoundingRect(dest, innerLineWidth), "Triangles")

\* the rects, textures, points and line widths the calls are made with
Rects == {0, 1}
CallTextures == {1, 2}
TrianglePoints == {<<0, 1, 2>>, <<1, 1, 2>>, <<1, 2, 1>>, <<2, 1, 1>>}
LineWidths == {0, 1}

(* ------------------------------------------------------------------ *)
(* Tile (first half of the file): the thing stack, the CountFlag       *)
(* counters and the per-floor completely-covered cache                 *)
(* ------------------------------------------------------------------ *)
MAX_Z == MaxFloor
Floors == 0..MAX_Z

\* the value of m_currentFirstVisibleFloor while no floor was queried
UINT8_MAX == 255

\* the values of a slot of m_completelyCoveredCache
UNCOMPUTED == 0
COVERED == 1
NOT_COVERED == 2

\* the counters of Tile::CountFlag
CountNames ==
    {"fullGround", "notWalkable", "notPathable", "notSingleDimension",
     "blockProjectile", "totalElevation", "hasDisplacement", "isNotPathable",
     "elevation", "opaque", "hasLight", "hasTallThings", "hasWideThings",
     "hasTallItems", "hasWideItems", "hasWall", "hasHookEast", "hasHookSouth",
     "hasTopGround", "hasNoWalkableEdge", "hasCreature", "hasCommonItem",
     "hasTopItem", "hasBottomItem", "hasGroundBorder"}

\* the things put on the tile: 1 a wall item, 2 a creature, 3 an elevated
\* common item
Things == 1..3

\* what a thing adds to a counter: 1 for every counter whose predicate the
\* thing's static properties match, its elevation for totalElevation
Weight(thing, counter) ==
    IF thing = 1
    THEN IF counter \in {"notWalkable", "notPathable", "blockProjectile",
                         "opaque", "hasWall", "hasTallThings", "hasTallItems",
                         "hasBottomItem", "hasHookSouth"}
         THEN 1 ELSE 0
    ELSE IF thing = 2
    THEN IF counter \in {"notWalkable", "hasCreature", "hasTallThings",
                         "hasLight"}
         THEN 1 ELSE 0
    ELSE IF counter \in {"elevation", "hasCommonItem", "hasDisplacement"}
         THEN 1
         ELSE IF counter = "totalElevation" THEN 8 ELSE 0

\* Tile::Tile: an empty tile
NewTile ==
    [m_things |-> <<>>,
     m_countFlag |-> [c \in CountNames |-> 0],
     m_currentFirstVisibleFloor |-> UINT8_MAX,
     m_coveredCache |-> [z \in Floors |-> 0],
     m_completelyCoveredCache |-> [z \in Floors |-> UNCOMPUTED]]

\* the index with which Tile::isCovered reads m_coveredCache
isCoveredIndex(t) == t.m_currentFirstVisibleFloor

\* Tile::isCovered: the values it can return; a read outside the array may
\* give either
isCovered(t) ==
    IF isCoveredIndex(t) \in Floors
    THEN {t.m_coveredCache[isCoveredIndex(t)] = 1}
    ELSE BOOLEAN

\* setCompletelyCoveredCache writing state 0 to the current floor's slot only
setCompletelyCoveredCache_CurrentOnly(t, state) ==
    IF t.m_currentFirstVisibleFloor # UINT8_MAX
    THEN [t EXCEPT
            !.m_completelyCoveredCache[t.m_currentFirstVisibleFloor] = state]
    ELSE t

\* setCompletelyCoveredCache writing every state to all slots
setCompletelyCoveredCache_FillAlways(t, state) ==
    [t EXCEPT !.m_completelyCoveredCache = [z \in Floors |-> state]]

\* Tile::setCompletelyCoveredCache(state) on a tile record
setCompletelyCoveredCache(t, state) ==
    IF state = 0
    THEN [t EXCEPT !.m_completelyCoveredCache = [z \in Floors |-> 0]]
    ELSE IF t.m_currentFirstVisibleFloor # UINT8_MAX
    THEN [t EXCEPT
            !.m_completelyCoveredCache[t.m_currentFirstVisibleFloor] = state]
    ELSE t

\* Tile::analyzeThing(thing, add): every counter the thing matches moves by
\* one step up or down, and the coverage cache is invalidated
analyzeThing(t, thing, isAdd) ==
    LET value == IF isAdd THEN 1 ELSE -1
        counted == [t EXCEPT !.m_countFlag =
                      [c \in CountNames |-> @[c] + value * Weight(thing, c)]]
    IN  setCompletelyCoveredCache(counted, 0)

\* vector::insert of x before (1-based) position i
InsertAt(s, i, x) ==
    [k \in 1..(Len(s) + 1) |->
        IF k < i THEN s[k] ELSE IF k = i THEN x ELSE s[k - 1]]

\* the first (1-based) position of x in s, 0 when it is not in s
IndexOf(s, x) ==
    IF \E i \in 1..Len(s) : s[i] = x
    THEN CHOOSE i \in 1..Len(s) : s[i] = x /\ \A j \in 1..(i - 1) : s[j] # x
    ELSE 0

\* Tile::addThing(thing, stackPos); stackPos -1 is the top of the stack
addThing(t, thing, stackPos) ==
    LET pos == IF stackPos < 0 THEN Len(t.m_things) ELSE stackPos
    IN  analyzeThing([t EXCEPT !.m_things = InsertAt(@, pos + 1, thing)],
                     thing, TRUE)

\* Tile::removeThing(thing); a thing that is not on the tile is left alone
removeThing(t, thing) ==
    LET i == IndexOf(t.m_things, thing)
    IN  IF i = 0 THEN t
        ELSE analyzeThing([t EXCEPT !.m_things = EraseAt(@, i)], thing, FALSE)

\* Tile::isCompletelyCovered(firstFloor), where covered is the answer of the
\* map for the queried floor: a floor given (> -1) becomes the current one,
\* and an answer not yet in the cache is stored for the current floor
isCompletelyCovered(t, firstFloor, covered) ==
    LET cur == IF firstFloor > -1
               THEN [t EXCEPT !.m_currentFirstVisibleFloor = firstFloor]
               ELSE t
        z == cur.m_currentFirstVisibleFloor
    IN  IF z \in Floors /\ cur.m_completelyCoveredCache[z] # UNCOMPUTED
        THEN cur
        ELSE setCompletelyCoveredCache(cur, IF covered THEN COVERED
                                            ELSE NOT_COVERED)

(* ------------------------------------------------------------------ *)
(* State                                                               *)
(* ------------------------------------------------------------------ *)
VARIABLES
    tile,           \* one Tile
    tileLast,       \* the last operation on the tile and what it started from
    m_pools,        \* the pool table: PoolIds -> pool record
    m_currentPool,  \* the pool add / addRepeated / addAction write to
    ub,             \* addRepeated searched from an iterator past end()
    frame,          \* draw() calls made so far
    ops,            \* operations made since the last draw()
    log,            \* per pool: the calls made on it since its list was cleared
    prevLog,        \* per framed pool: the calls of the frame before, while
                    \* this frame repeats them
    shaderAdded,    \* per pool: an add(Repeated) carried a shader program
    trace,          \* the events of the last draw(), until the next call
    prevObjects     \* where kept (SpecCache): per pool, the list the last
                    \* draw() found

vars == <<m_pools, m_currentPool, ub, frame, ops, log, prevLog, shaderAdded,
          trace, prevObjects, tile, tileLast>>

\* the state of the draw pool, and of the tile
poolVars == <<m_pools, m_currentPool, ub, frame, ops, log, prevLog,
              shaderAdded, trace, prevObjects>>
tileVars == <<tile, tileLast>>

\* some slot of the tile's coverage cache holds a computed value
Cached(t) == \E z \in Floors : t.m_completelyCoveredCache[z] # UNCOMPUTED

\* the indices with which operation op(arg), made on tile t, reads or writes
\* the per-floor arrays
Accessed(op, arg, t) ==
    IF op = "isCovered" THEN {isCoveredIndex(t)}
    ELSE IF op = "isCompletelyCovered"
    THEN LET z == IF arg > -1 THEN arg ELSE t.m_currentFirstVisibleFloor
         IN  IF z # UINT8_MAX THEN {z} ELSE {}
    ELSE IF op = "none" \/ (op = "removeThing" /\ IndexOf(t.m_things, arg) = 0)
    THEN {}
    ELSE Floors

\* the record of a tile operation op made on tile t
TileOp(op, arg, t) ==
    [op |-> op, arg |-> arg, countBefore |-> t.m_countFlag,
     cachedBefore |-> Cached(t), indices |-> Accessed(op, arg, t)]

NoTileOp == TileOp("none", 0, NewTile)

\* the record r of an operation, with the record of the one before it
After(r, prev) ==
    [op |-> r.op, arg |-> r.arg, countBefore |-> r.countBefore,
     cachedBefore |-> r.cachedBefore, indices |-> r.indices,
     prev |-> [op |-> prev.op, arg |-> prev.arg,
               countBefore |-> prev.countBefore,
               cachedBefore |-> prev.cachedBefore]]

\* one entry of log: the call (for use its pool argument as id, for the use
\* of a framed pool also its dest and src as the rects of method), and for
\* add / addRepeated the position `at` of the object that got the method and
\* whether the call created that object
Entry(op, call, id) ==
    [op |-> op, state |-> call.state, method |-> call.method,
     mode |-> call.mode, id |-> id, at |-> 0, created |-> FALSE]

\* the position at which the list `new` got a method that `old` lacked (the
\* last position when an add replaced a method by an equal one)
PlacedAt(old, new) ==
    IF Len(new) > Len(old) \/ new = old THEN Len(new)
    ELSE CHOOSE k \in 1..Len(new) :
            new[k] # old[k] /\ \A j \in (k + 1)..Len(new) : new[j] = old[j]

\* the entry of an add / addRepeated call that turned list `old` into `new`
DrawEntry(op, call, old, new) ==
    [Entry(op, call, 0) EXCEPT !.at = PlacedAt(old, new),
                               !.created = Len(new) > Len(old)]

NoCall == Call(DefaultState, NewMethod("NONE"), "None")

IsPrefix(s, t) == Len(s) <= Len(t) /\ \A i \in 1..Len(s) : s[i] = t[i]

NoPrev == [valid |-> FALSE, calls |-> <<>>]

\* the bookkeeping of one call `entry` on pool p
Logged(p, entry) ==
    LET newLog == Append(log[p], entry)
    IN  /\ log' = [log EXCEPT ![p] = newLog]
        /\ prevLog' = [prevLog EXCEPT ![p] =
              IF @.valid /\ IsPrefix(newLog, @.calls) THEN @ ELSE NoPrev]
        /\ trace' = <<>>
        /\ ops' = ops + 1
        /\ UNCHANGED <<prevObjects, tile, tileLast>>

\* the state after init(), given the pool table that createPool /
\* createPoolF and the callback setters have made
InitWith(pools, keepLists) ==
    /\ m_pools = pools
    /\ prevObjects = [kept |-> keepLists, lists |-> [p \in PoolIds |-> <<>>]]
    /\ m_currentPool = UNKNOW
    /\ ub = FALSE
    /\ frame = 0
    /\ ops = 0
    /\ log = [p \in PoolIds |-> <<>>]
    /\ prevLog = [p \in PoolIds |-> NoPrev]
    /\ shaderAdded = [p \in PoolIds |-> FALSE]
    /\ trace = <<>>
    /\ tile = NewTile
    /\ tileLast = After(NoTileOp, NoTileOp)

Init == InitWith([p \in PoolIds |-> NewPool(p \in FramedIds)], FALSE)

\* the same, with the lists of the last draw() kept
InitCache == InitWith([p \in PoolIds |-> NewPool(p \in FramedIds)], TRUE)

\* a pool table with every pool but UNKNOW framed, the before and after
\* callbacks of the framed pools set or not
InitFlush ==
    \E before, after \in BOOLEAN :
        InitWith([p \in PoolIds |->
                    [NewPool(p # UNKNOW) EXCEPT
                        !.m_beforeDraw = (p # UNKNOW) /\ before,
                        !.m_afterDraw = (p # UNKNOW) /\ after]],
                 FALSE)

(* ------------------------------------------------------------------ *)
(* Actions                                                             *)
(* ------------------------------------------------------------------ *)
\* DrawPool::use(pool); pool 0 is the null PoolPtr
Use(pool) ==
    LET p == IF pool # 0 THEN pool ELSE UNKNOW
    IN  /\ ~ub
        /\ m_currentPool' = p
        /\ m_pools' = [m_pools EXCEPT ![p] = use(@)]
        /\ Logged(p, Entry("use", NoCall, pool))
        /\ UNCHANGED <<ub, frame, shaderAdded>>

\* DrawPool::use(pool, dest, src) for a framed pool
UseFramed(p, dest, src) ==
    /\ ~ub
    /\ m_pools[p].framed
    /\ m_currentPool' = p
    /\ m_pools' = [m_pools EXCEPT ![p] = useFramed(@, dest, src)]
    /\ Logged(p, Entry("useFramed",
                       Call(DefaultState, TexturedRect(dest, src, 0), "None"),
                       p))
    /\ UNCHANGED <<ub, frame, shaderAdded>>

\* DrawPool::add(state, method, drawMode)
Add(c) ==
    /\ ~ub
    /\ m_pools' = [m_pools EXCEPT ![m_currentPool] =
                      add(@, c.state, c.method, c.mode)]
    /\ Logged(m_currentPool,
              DrawEntry("add", c, m_pools[m_currentPool].m_objects,
                        m_pools'[m_currentPool].m_objects))
    /\ shaderAdded' = [shaderAdded EXCEPT ![m_currentPool] =
                          @ \/ c.state.shaderProgram]
    /\ UNCHANGED <<m_currentPool, ub, frame>>

\* DrawPool::addRepeated(state, method, drawMode)
AddRepeated(c) ==
    /\ ~ub
    /\ StartIndex(m_pools[m_currentPool]) <= Len(m_pools[m_currentPool].m_objects)
    /\ m_pools' = [m_pools EXCEPT ![m_currentPool] =
                      addRepeated(@, c.state, c.method, c.mode)]
    /\ Logged(m_currentPool,
              DrawEntry("addRepeated", c, m_pools[m_currentPool].m_objects,
                        m_pools'[m_currentPool].m_objects))
    /\ shaderAdded' = [shaderAdded EXCEPT ![m_currentPool] =
                          @ \/ c.state.shaderProgram]
    /\ UNCHANGED <<m_currentPool, ub, frame>>

\* DrawPool::addRepeated when begin() + startIndex lies past end(): the
\* behaviour is undefined, and the model follows the run no further
AddRepeatedPastEnd ==
    /\ ~ub
    /\ StartIndex(m_pools[m_currentPool]) > Len(m_pools[m_currentPool].m_objects)
    /\ ub' = TRUE
    /\ UNCHANGED <<m_pools, m_currentPool, frame, ops, log, prevLog,
                   shaderAdded, trace, prevObjects>>
    /\ UNCHANGED tileVars

\* DrawPool::addAction(action)
AddAction(id) ==
    /\ ~ub
    /\ m_pools' = [m_pools EXCEPT ![m_currentPool] = addAction(@, id)]
    /\ Logged(m_currentPool, Entry("addAction", NoCall, id))
    /\ UNCHANGED <<m_currentPool, ub, frame, shaderAdded>>

\* one entry of log for a drawing call: its name and arguments
CallEntry(op, args) == [op |-> op, args |-> args]

\* the bookkeeping of a drawing call that turns the current pool into pool
Called(pool, entry) ==
    /\ ~ub
    /\ m_pools' = [m_pools EXCEPT ![m_currentPool] = pool]
    /\ Logged(m_currentPool, entry)
    /\ UNCHANGED <<m_currentPool, ub, frame, shaderAdded>>

AddTexturedRect(dest, texture, src, originalDest) ==
    Called(addTexturedRect(m_pools[m_currentPool], dest, texture, src, White,
                           originalDest),
           CallEntry("addTexturedRect", [dest |-> dest, src |-> src]))

AddUpsideDownTexturedRect(dest, texture, src) ==
    Called(addUpsideDownTexturedRect(m_pools[m_currentPool], dest, texture,
                                     src, White),
           CallEntry("addUpsideDownTexturedRect", [dest |-> dest, src |-> src]))

AddRepeatedTexturedRect(dest, texture, src) ==
    Called(addRepeatedTexturedRect(m_pools[m_currentPool], dest, texture,
                                   src, White),
           CallEntry("addRepeatedTexturedRect", [dest |-> dest, src |-> src]))

AddRepeatedTexturedRepeatedRect(dest, texture, src) ==
    Called(addRepeatedTexturedRepeatedRect(m_pools[m_currentPool], dest,
                                           texture, src, White),
           CallEntry("addRepeatedTexturedRepeatedRect",
                     [dest |-> dest, src |-> src]))

AddRepeatedFilledRect(dest) ==
    Called(addRepeatedFilledRect(m_pools[m_currentPool], dest, White),
           CallEntry("addRepeatedFilledRect", [dest |-> dest]))

AddFilledRect(dest) ==
    Called(addFilledRect(m_pools[m_currentPool], dest, White),
           CallEntry("addFilledRect", [dest |-> dest]))

AddFilledTriangle(t) ==
    Called(addFilledTriangle(m_pools[m_currentPool], t[1], t[2], t[3], White),
           CallEntry("addFilledTriangle", [points |-> t]))

AddBoundingRect(dest, innerLineWidth) ==
    Called(addBoundingRect(m_pools[m_currentPool], dest, White, innerLineWidth),
           CallEntry("addBoundingRect",
                     [dest |-> dest, innerLineWidth |-> innerLineWidth]))

\* Pool::startPosition on the current pool
StartPosition ==
    /\ ~ub
    /\ m_pools[m_currentPool].m_indexToStartSearching
          # Len(m_pools[m_currentPool].m_objects)
    /\ m_pools' = [m_pools EXCEPT ![m_currentPool] = startPosition(@)]
    /\ trace' = <<>>
    /\ ops' = ops + 1
    /\ UNCHANGED <<m_currentPool, ub, frame, log, prevLog, shaderAdded,
                   prevObjects>>
    /\ UNCHANGED tileVars

\* Pool::setEnable(v)
SetEnable(p, v) ==
    /\ ~ub
    /\ m_pools[p].m_enabled # v
    /\ m_pools' = [m_pools EXCEPT ![p].m_enabled = v]
    /\ trace' = <<>>
    /\ ops' = ops + 1
    /\ UNCHANGED <<m_currentPool, ub, frame, log, prevLog, shaderAdded,
                   prevObjects>>
    /\ UNCHANGED tileVars

\* DrawPool::draw(), but for the count of operations
DrawBody ==
    /\ ~ub
    /\ LET d == draw(m_pools)
       IN  /\ m_pools' = d[1]
           /\ trace' = d[2]
    /\ frame' = frame + 1
    /\ log' = [p \in PoolIds |->
                 IF m_pools[p].m_enabled THEN <<>>
                 ELSE Append(log[p], Entry("frame", NoCall, 0))]
    /\ prevLog' = [p \in PoolIds |->
                     IF m_pools[p].m_enabled /\ m_pools[p].framed
                     THEN [valid |-> TRUE, calls |-> log[p]]
                     ELSE NoPrev]
    /\ prevObjects' =
          IF prevObjects.kept
          THEN [prevObjects EXCEPT
                  !.lists = [p \in PoolIds |-> m_pools[p].m_objects]]
          ELSE prevObjects
    /\ UNCHANGED <<m_currentPool, ub, shaderAdded>>
    /\ UNCHANGED tileVars

\* DrawPool::draw() at the end of a frame of Spec
Draw ==
    /\ frame < MaxFrames
    /\ DrawBody
    /\ ops' = 0

\* DrawPool::draw() at the end of a frame of SpecCache
DrawInCache ==
    /\ frame < MaxCacheFrames
    /\ DrawBody
    /\ ops' = 0

\* DrawPool::draw() in a run of SpecBatch or SpecFlush
DrawInBatch ==
    /\ frame < MaxBatchFrames
    /\ DrawBody
    /\ ops' = ops

\* the bookkeeping of a tile operation that turns the tile into t
TileStep(op, arg, t) ==
    /\ tile' = t
    /\ tileLast' = After(TileOp(op, arg, tile), tileLast)
    /\ UNCHANGED poolVars

\* Tile::addThing(thing, stackPos)
AddThing(thing, stackPos) ==
    /\ Len(tile.m_things) < MaxStack
    /\ stackPos <= Len(tile.m_things)
    /\ TileStep("addThing", thing, addThing(tile, thing, stackPos))

\* Tile::removeThing(thing)
RemoveThing(thing) ==
    TileStep("removeThing", thing, removeThing(tile, thing))

\* Tile::isCompletelyCovered(firstFloor), the map answering covered
IsCompletelyCovered(firstFloor, covered) ==
    TileStep("isCompletelyCovered", firstFloor,
             isCompletelyCovered(tile, firstFloor, covered))

\* Tile::isCovered() returning result
IsCovered(result) ==
    /\ result \in isCovered(tile)
    /\ TileStep("isCovered", result, tile)

(* ------------------------------------------------------------------ *)
(* Specifications                                                      *)
(* ------------------------------------------------------------------ *)
\* frames: a few calls, then draw(), repeatedly
FrameBudget == ops < MaxOps /\ frame < MaxFrames

Next ==
    \/ \E p \in PoolIds \cup {0} : FrameBudget /\ Use(p)
    \/ \E p \in FramedIds : FrameBudget /\ UseFramed(p, 1, 2)
    \/ \E c \in FrameAddCalls : FrameBudget /\ Add(c)
    \/ \E c \in FrameRepeatedCalls : FrameBudget /\ AddRepeated(c)
    \/ \E id \in FrameActions : FrameBudget /\ AddAction(id)
    \/ \E p \in PoolIds, v \in BOOLEAN : FrameBudget /\ SetEnable(p, v)
    \/ Draw

Spec == Init /\ [][Next]_vars

\* batching: a wider choice of calls, around at most one draw()
BatchBudget == ops < MaxBatchOps

NextBatch ==
    \/ \E p \in PoolIds : BatchBudget /\ Use(p)
    \/ \E c \in BatchAddCalls : BatchBudget /\ Add(c)
    \/ \E c \in BatchRepeatedCalls : BatchBudget /\ AddRepeated(c)
    \/ BatchBudget /\ AddRepeatedPastEnd
    \/ \E id \in Actions : BatchBudget /\ AddAction(id)
    \/ BatchBudget /\ StartPosition
    \/ \E p \in PoolIds : BatchBudget /\ SetEnable(p, FALSE)
    \/ DrawInBatch

SpecBatch == Init /\ [][NextBatch]_vars

\* the drawing calls, with valid and with degenerate arguments
CallBudget == ops < MaxCallOps

NextCalls ==
    \/ \E p \in PoolIds : CallBudget /\ Use(p)
    \/ \E d \in Rects, t \in CallTextures, r \in Rects :
          CallBudget /\ AddTexturedRect(d, t, r, d)
    \/ \E d \in Rects, r \in Rects :
          CallBudget /\ AddUpsideDownTexturedRect(d, 1, r)
    \/ \E d \in Rects, r \in Rects :
          CallBudget /\ AddRepeatedTexturedRect(d, 1, r)
    \/ \E d \in Rects, r \in Rects :
          CallBudget /\ AddRepeatedTexturedRepeatedRect(d, 1, r)
    \/ \E d \in Rects : CallBudget /\ AddRepeatedFilledRect(d)
    \/ \E d \in Rects : CallBudget /\ AddFilledRect(d)
    \/ \E t \in TrianglePoints : CallBudget /\ AddFilledTriangle(t)
    \/ \E d \in Rects, w \in LineWidths : CallBudget /\ AddBoundingRect(d, w)

SpecCalls == Init /\ [][NextCalls]_vars

\* one frame over a table with two framed pools
FlushBudget == ops < MaxFlushOps

NextFlush ==
    \/ \E p \in PoolIds : FlushBudget /\ Use(p)
    \/ \E p \in PoolIds \ {UNKNOW}, d \in {1, 2} :
          FlushBudget /\ UseFramed(p, d, 3 - d)
    \/ \E c \in FrameAddCalls : FlushBudget /\ Add(c)
    \/ \E id \in FrameActions : FlushBudget /\ AddAction(id)
    \/ \E p \in PoolIds \ {UNKNOW} : FlushBudget /\ SetEnable(p, FALSE)
    \/ DrawInBatch

SpecFlush == InitFlush /\ [][NextFlush]_vars

\* two frames of a framed pool: longer frames, fewer calls to choose from
CacheBudget == ops < MaxCacheOps /\ frame < MaxCacheFrames

CacheAddCalls ==
    {Call(TexState(1, FALSE), TexturedRect(1, 1, 1), "TriangleStrip"),
     Call(TexState(2, FALSE), TexturedRect(2, 1, 0), "TriangleStrip")}

NextCache ==
    \/ \E p \in FramedIds : CacheBudget /\ Use(p)
    \/ \E c \in CacheAddCalls : CacheBudget /\ Add(c)
    \/ \E id \in FrameActions : CacheBudget /\ AddAction(id)
    \/ DrawInCache

SpecCache == InitCache /\ [][NextCache]_vars

\* one tile: things put on it and taken off, and coverage queries
NextTile ==
    \/ \E thing \in Things, stackPos \in -1..MaxStack : AddThing(thing, stackPos)
    \/ \E thing \in Things : RemoveThing(thing)
    \/ \E firstFloor \in -1..MAX_Z, covered \in BOOLEAN :
          IsCompletelyCovered(firstFloor, covered)
    \/ \E result \in BOOLEAN : IsCovered(result)

SpecTile == Init /\ [][NextTile]_vars

(* ------------------------------------------------------------------ *)
(* Reading the log and the trace                                       *)
(* ------------------------------------------------------------------ *)
IsAdd(e) == e.op = "add"
IsUse(e) == e.op \in {"use", "useFramed"}
IsRepeated(e) == e.op = "addRepeated"
IsDrawCall(e) == e.op \in {"add", "addRepeated"}

\* the entries of s that satisfy Test, in order
Filter(s, Test(_)) == SelectSeq(s, Test)

\* the methods passed by the add / addRepeated calls of log[p], in call order
LogMethods(p) ==
    LET calls == Filter(log[p], IsDrawCall)
    IN  [i \in 1..Len(calls) |-> calls[i].method]

\* s is t with some entries left out
RECURSIVE IsSubseq(_, _)
IsSubseq(s, t) ==
    IF s = <<>> THEN TRUE
    ELSE IF t = <<>> THEN FALSE
    ELSE IF Head(s) = Head(t) THEN IsSubseq(Tail(s), Tail(t))
    ELSE IsSubseq(s, Tail(t))

\* since pool p's list was last empty it was only selected and given add
\* calls, at least one, all with the same state
OnlyEqualAdds(p) ==
    /\ \A i \in 1..Len(log[p]) : IsAdd(log[p][i]) \/ IsUse(log[p][i])
    /\ \E i \in 1..Len(log[p]) : IsAdd(log[p][i])
    /\ \A i, j \in 1..Len(log[p]) :
          IsAdd(log[p][i]) /\ IsAdd(log[p][j])
             => log[p][i].state = log[p][j].state

\* no method of ms has the non-null destination of an earlier one
DistinctDests(ms) ==
    \A i, j \in 1..Len(ms) : i < j /\ ms[j].dest # 0 => ms[i].dest # ms[j].dest

(* ------------------------------------------------------------------ *)
(* C1                                                                  *)
(* ------------------------------------------------------------------ *)
\* C1 as stated: after n >= 1 add calls with an equal state on a pool whose
\* list was empty, the pool holds exactly one DrawObject and its method list
\* is the n added methods in call order.
C1_AllMethodsKept ==
    \A p \in PoolIds :
        OnlyEqualAdds(p) =>
            /\ Len(m_pools[p].m_objects) = 1
            /\ m_pools[p].m_objects[1].drawMethods = LogMethods(p)

\* C1 amended: after such calls the pool holds exactly one DrawObject, with the
\* common state; its method list is a subsequence, in call order, of the added
\* methods and ends with the last one added; and it is all n methods when no
\* added method has the non-null destination of an earlier one.
C1_Merge ==
    \A p \in PoolIds :
        OnlyEqualAdds(p) =>
            LET objs == m_pools[p].m_objects
                ms == LogMethods(p)
            IN  /\ Len(objs) = 1
                /\ objs[1].action = NoAction
                /\ \A i \in 1..Len(log[p]) :
                      IsAdd(log[p][i]) => objs[1].state = log[p][i].state
                /\ IsSubseq(objs[1].drawMethods, ms)
                /\ objs[1].drawMethods # <<>>
                /\ objs[1].drawMethods[Len(objs[1].drawMethods)] = ms[Len(ms)]
                /\ DistinctDests(ms) => objs[1].drawMethods = ms

\* three add calls with one state and not all the same method, all kept
C1_Witness ==
    \E p \in PoolIds :
        /\ OnlyEqualAdds(p)
        /\ Len(LogMethods(p)) >= 3
        /\ LogMethods(p)[1] # LogMethods(p)[2]
        /\ m_pools[p].m_objects[1].drawMethods = LogMethods(p)

(* ------------------------------------------------------------------ *)
(* C2                                                                  *)
(* ------------------------------------------------------------------ *)
\* the methods rasterized for pool p by the events tr, in order
RECURSIVE Replayed(_, _)
Replayed(tr, p) ==
    IF tr = <<>> THEN <<>>
    ELSE (IF Head(tr).ev = "drawCoords" /\ Head(tr).pool = p
          THEN Head(tr).arg.drawMethods ELSE <<>>)
         \o Replayed(Tail(tr), p)

\* this step is a draw() call
IsDrawStep == frame' = frame + 1

\* C2 as stated: whatever add, addRepeated and addAction calls a pool got,
\* draw() replays its methods in the order in which they were added.
C2_ReplayInCallOrder ==
    [][IsDrawStep =>
          \A p \in PoolIds : IsSubseq(Replayed(trace', p), LogMethods(p))]_vars

\* C2 amended: a pool that got only add and addAction calls (no addRepeated)
\* has its methods replayed by draw() in the order in which they were added.
C2_ReplayInAddOrder ==
    [][IsDrawStep =>
          \A p \in PoolIds :
              (\A i \in 1..Len(log[p]) : ~IsRepeated(log[p][i]))
                 => IsSubseq(Replayed(trace', p), LogMethods(p))]_vars

\* a draw() that replayed two objects of a pool filled by add, three methods
\* in all and not all the same
C2_Witness ==
    \E p \in PoolIds :
        LET ms == Replayed(trace, p)
        IN  /\ Len(ms) >= 3
            /\ \A i \in 1..Len(ms) : ms[i].type = "DRAW_TEXTURED_RECT"
            /\ ms[1] # ms[2]
            /\ Cardinality({i \in 1..Len(trace) :
                   trace[i].ev = "drawCoords" /\ trace[i].pool = p}) >= 2

(* ------------------------------------------------------------------ *)
(* C3                                                                  *)
(* ------------------------------------------------------------------ *)
\* C3: after every draw() call the object list of every pool is empty, of a
\* disabled pool too.
C3_AllListsEmptyAfterDraw ==
    [][IsDrawStep => \A p \in PoolIds : m_pools'[p].m_objects = <<>>]_vars

(* ------------------------------------------------------------------ *)
(* C4                                                                  *)
(* ------------------------------------------------------------------ *)
\* the events of tr with tag ev for pool p
EventsOf(tr, ev, p) ==
    {i \in 1..Len(tr) : tr[i].ev = ev /\ tr[i].pool = p}

\* framed pool p, enabled at the last draw() and now, was selected once in this
\* frame and then given the add / addRepeated calls of the frame before, none
\* with a shader program
SameAsPrev(p) ==
    /\ m_pools[p].framed
    /\ m_pools[p].m_enabled
    /\ prevLog[p].valid
    /\ prevLog[p].calls = log[p]
    /\ Len(log[p]) >= 2
    /\ IsUse(log[p][1])
    /\ \A i \in 2..Len(log[p]) :
          IsDrawCall(log[p][i]) /\ ~log[p][i].state.shaderProgram

\* the draw() of this step composites pool p's cached image as it is
CachedOnly(p) ==
    /\ ~hasModification(m_pools[p])
    /\ EventsOf(trace', "bind", p) = {}
    /\ EventsOf(trace', "drawCoords", p) = {}
    /\ Cardinality(EventsOf(trace', "framebufferDraw", p)) = 1

\* C4 as stated: an enabled framed pool given the same calls, without shader,
\* in two consecutive frames has no modification at the second frame's
\* pre-draw, and draw() neither binds nor redraws its framebuffer.
C4_CacheHit ==
    [][IsDrawStep => \A p \in PoolIds : SameAsPrev(p) => CachedOnly(p)]_vars

\* C4 amended: the same, provided the pool's auto-update flag is not set (no
\* add or addRepeated call ever gave the pool a state with a shader program).
C4_CacheHitNoAutoUpdate ==
    [][IsDrawStep =>
          \A p \in PoolIds :
              SameAsPrev(p) /\ ~m_pools[p].m_autoUpdate => CachedOnly(p)]_vars

\* the second of two equal frames with content, about to be drawn
C4_Witness ==
    \E p \in PoolIds :
        /\ SameAsPrev(p)
        /\ ~m_pools[p].m_autoUpdate
        /\ m_pools[p].m_status[2] # 0
        /\ m_pools[p].m_objects # <<>>
        /\ frame < MaxFrames

(* ------------------------------------------------------------------ *)
(* C5                                                                  *)
(* ------------------------------------------------------------------ *)
\* the events tr[i..j]
Slice(tr, i, j) == [k \in 1..(j - i + 1) |-> tr[i + k - 1]]

\* the events tr rebuild pool p's framebuffer from list before they composite
\* it: bind, the replay of list, release, and later the blit
RebuiltFrom(tr, p, list) ==
    \E b \in EventsOf(tr, "bind", p), r \in EventsOf(tr, "release", p) :
        /\ b < r
        /\ Slice(tr, b + 1, r - 1) = drawObjects(p, list)
        /\ \A c \in EventsOf(tr, "framebufferDraw", p) : r < c

\* C5: in every draw(), an enabled framed pool whose running hash differs from
\* the committed one, or whose auto-update flag is set, has its framebuffer
\* rebuilt from this frame's object list before it is composited (also when
\* that list is empty); otherwise the cached image is composited as it is.
C5_RebuiltWhenModified ==
    [][IsDrawStep =>
          \A p \in PoolIds :
              m_pools[p].framed /\ m_pools[p].m_enabled =>
                  IF m_pools[p].m_status[1] # m_pools[p].m_status[2]
                        \/ m_pools[p].m_autoUpdate
                  THEN RebuiltFrom(trace', p, m_pools[p].m_objects)
                  ELSE EventsOf(trace', "bind", p) = {}]_vars

(* ------------------------------------------------------------------ *)
(* C6                                                                  *)
(* ------------------------------------------------------------------ *)
\* C6: once an add or addRepeated call on a framed pool carried a state with a
\* shader program, hasModification() is true for that pool from then on.
C6_AutoUpdate ==
    \A p \in PoolIds :
        m_pools[p].framed /\ shaderAdded[p] => hasModification(m_pools[p])

\* a later frame without shader draws whose running hash equals the committed
\* one, on a pool that got a shader draw in an earlier frame
C6_Witness ==
    \E p \in PoolIds :
        /\ m_pools[p].framed /\ shaderAdded[p]
        /\ frame >= 1
        /\ log[p] # <<>>
        /\ \A i \in 1..Len(log[p]) : ~log[p][i].state.shaderProgram
        /\ m_pools[p].m_status[1] = m_pools[p].m_status[2]
        /\ m_pools[p].m_status[2] # 0

(* ------------------------------------------------------------------ *)
(* C7                                                                  *)
(* ------------------------------------------------------------------ *)
\* the number of methods held by the objects of list
RECURSIVE TotalMethods(_)
TotalMethods(list) ==
    IF list = <<>> THEN 0
    ELSE Len(Head(list).drawMethods) + TotalMethods(Tail(list))

\* this step is an add call on pool p
IsAddStep(p) ==
    /\ m_currentPool = p
    /\ Len(log'[p]) = Len(log[p]) + 1
    /\ IsAdd(log'[p][Len(log'[p])])

\* the call made by this step on pool p
StepCall(p) == log'[p][Len(log'[p])]

\* the add of this step on pool p gives a method with a non-null destination
\* that a method of the trailing object has too, with an opaque texture, over
\* a trailing object whose texture can be superimposed
SuperimposesTrailing(p) ==
    /\ IsAddStep(p)
    /\ m_pools[p].m_objects # <<>>
    /\ LET prevObj == m_pools[p].m_objects[Len(m_pools[p].m_objects)]
       IN  /\ StepCall(p).method.dest # 0
           /\ \E i \in 1..Len(prevObj.drawMethods) :
                 prevObj.drawMethods[i].dest = StepCall(p).method.dest
           /\ isOpaque(StepCall(p).state.texture)
           /\ canSuperimposed(prevObj.state.texture)

\* C7 as stated: such an add leaves the number of DrawObjects and the total
\* number of methods of the pool as they were, whether or not the two states
\* are equal.
C7_SameObjectsSameMethods ==
    [][\A p \in PoolIds :
          SuperimposesTrailing(p) =>
              /\ Len(m_pools'[p].m_objects) = Len(m_pools[p].m_objects)
              /\ TotalMethods(m_pools'[p].m_objects)
                    = TotalMethods(m_pools[p].m_objects)]_vars

\* C7 amended: such an add removes the first method of the trailing object
\* with that destination and adds the new one, so the total number of methods
\* is as before; the number of DrawObjects is as before when the new state
\* equals the trailing object's, and one more when it differs (the new method
\* then starts a new object).
C7_SameMethods ==
    [][\A p \in PoolIds :
          SuperimposesTrailing(p) =>
              LET old == m_pools[p].m_objects
                  new == m_pools'[p].m_objects
                  n == Len(old)
                  c == StepCall(p)
                  Hit(m) == m.dest = c.method.dest
              IN  /\ TotalMethods(new) = TotalMethods(old)
                  /\ Len(new) = IF old[n].state = c.state THEN n ELSE n + 1
                  /\ new[Len(new)].drawMethods[Len(new[Len(new)].drawMethods)]
                        = c.method
                  /\ old[n].state # c.state =>
                        new[n].drawMethods
                           = EraseAt(old[n].drawMethods,
                                     FirstIndex(old[n].drawMethods, Hit))
                  /\ \A k \in 1..(n - 1) : new[k] = old[k]]_vars

\* an add with another state emptied the trailing object and started a new one
C7_Witness ==
    \E p \in PoolIds :
        LET objs == m_pools[p].m_objects
            n == Len(objs)
        IN  /\ n >= 2
            /\ objs[n - 1].action = NoAction
            /\ objs[n - 1].drawMethods = <<>>
            /\ Len(objs[n].drawMethods) = 1
            /\ objs[n].drawMethods[1].dest # 0
            /\ log[p][Len(log[p])].op = "add"

(* ------------------------------------------------------------------ *)
(* C8                                                                  *)
(* ------------------------------------------------------------------ *)
\* entries i < j of log[p] are addRepeated calls with one state, the first of
\* which created its object, with only add / addRepeated calls of other
\* states between them, and the second is the last call made on the pool
RepeatedPair(p, i, j) ==
    /\ i < j /\ j = Len(log[p])
    /\ IsRepeated(log[p][i]) /\ IsRepeated(log[p][j])
    /\ log[p][i].created
    /\ log[p][i].state = log[p][j].state
    /\ \A k \in (i + 1)..(j - 1) :
          IsDrawCall(log[p][k]) /\ log[p][k].state # log[p][i].state

\* C8: two addRepeated calls with equal state, whatever add / addRepeated calls
\* with other states were made between them, leave both methods, in call
\* order, in the one object the first call created, the only object with that
\* state from the search start on, provided the search start index does not
\* point past that object.
C8_RepeatedMerge ==
    \A p \in PoolIds :
        \A i, j \in 1..Len(log[p]) :
            RepeatedPair(p, i, j) /\ StartIndex(m_pools[p]) < log[p][i].at =>
                LET objs == m_pools[p].m_objects
                    at == log[p][i].at
                IN  /\ log[p][j].at = at
                    /\ ~log[p][j].created
                    /\ objs[at].state = log[p][i].state
                    /\ objs[at].drawMethods
                          = <<log[p][i].method, log[p][j].method>>
                    /\ \A k \in (StartIndex(m_pools[p]) + 1)..Len(objs) :
                          objs[k].state = log[p][i].state => k = at

\* two addRepeated calls with different destinations merged across an object
\* of another state, searched from a start index that was moved
C8_Witness ==
    \E p \in PoolIds :
        \E i, j \in 1..Len(log[p]) :
            /\ RepeatedPair(p, i, j)
            /\ j > i + 1
            /\ m_pools[p].m_indexToStartSearching # 0
            /\ StartIndex(m_pools[p]) < log[p][i].at
            /\ log[p][i].method.rects[1] # log[p][j].method.rects[1]
            /\ Len(m_pools[p].m_objects[log[p][i].at].drawMethods) = 2

(* ------------------------------------------------------------------ *)
(* C9                                                                  *)
(* ------------------------------------------------------------------ *)
\* states a and b differ in their texture and in nothing else
DifferInTextureOnly(a, b) ==
    a.texture # b.texture /\ [a EXCEPT !.texture = b.texture] = b

\* the add of this step on pool p directly follows another add on p whose
\* state differs from its own in the texture only, and its method has no
\* non-null destination that a method of the trailing object has
AddAfterOtherTexture(p) ==
    /\ IsAddStep(p)
    /\ log[p] # <<>>
    /\ IsAdd(log[p][Len(log[p])])
    /\ DifferInTextureOnly(log[p][Len(log[p])].state, StepCall(p).state)
    /\ LET prevObj == m_pools[p].m_objects[Len(m_pools[p].m_objects)]
       IN  \/ StepCall(p).method.dest = 0
           \/ \A i \in 1..Len(prevObj.drawMethods) :
                 prevObj.drawMethods[i].dest # StepCall(p).method.dest

\* C9: the second of two consecutive add calls whose states differ only in
\* the texture (no superimposed-draw removal) is not merged: the object that
\* holds the first call's method stays as it is, and a new object holding
\* only the second method follows it.
C9_NoMergeAcrossTextures ==
    [][\A p \in PoolIds :
          AddAfterOtherTexture(p) =>
              LET old == m_pools[p].m_objects
                  first == log[p][Len(log[p])]
                  second == StepCall(p)
              IN  /\ old[Len(old)].state = first.state
                  /\ old[Len(old)].drawMethods[Len(old[Len(old)].drawMethods)]
                        = first.method
                  /\ m_pools'[p].m_objects
                        = Append(old, NewObject(second.state, second.mode,
                                                <<second.method>>, NoAction))]_vars

\* two objects, one method each, from two add calls on an empty list whose
\* states differ in the texture only
C9_Witness ==
    \E p \in PoolIds :
        LET objs == m_pools[p].m_objects
            calls == Filter(log[p], IsDrawCall)
        IN  /\ Len(objs) = 2 /\ Len(calls) = 2
            /\ IsAdd(calls[1]) /\ IsAdd(calls[2])
            /\ DifferInTextureOnly(calls[1].state, calls[2].state)
            /\ objs[1].state = calls[1].state
            /\ objs[1].drawMethods = <<calls[1].method>>
            /\ objs[2].state = calls[2].state
            /\ objs[2].drawMethods = <<calls[2].method>>

(* ------------------------------------------------------------------ *)
(* C10                                                                 *)
(* ------------------------------------------------------------------ *)
\* what the replay of list runs, object by object: the callback of an action
\* object, 0 for an object with methods to rasterize
RECURSIVE ReplayOrder(_)
ReplayOrder(list) ==
    IF list = <<>> THEN <<>>
    ELSE (IF Head(list).action # NoAction THEN <<Head(list).action>>
          ELSE IF Head(list).drawMethods # <<>> THEN <<0>>
          ELSE <<>>)
         \o ReplayOrder(Tail(list))

\* what the events tr ran for pool p: callbacks and rasterizations, in order
RECURSIVE Ran(_, _)
Ran(tr, p) ==
    IF tr = <<>> THEN <<>>
    ELSE (IF Head(tr).pool = p /\ Head(tr).ev = "action" THEN <<Head(tr).arg>>
          ELSE IF Head(tr).pool = p /\ Head(tr).ev = "drawCoords" THEN <<0>>
          ELSE <<>>)
         \o Ran(Tail(tr), p)

\* C10 as stated: draw() invokes every action of an enabled pool exactly once,
\* after the objects added before it and before those added after it, for
\* framed and non-framed pools alike.
C10_ActionsRunInPosition ==
    [][IsDrawStep =>
          \A p \in PoolIds :
              m_pools[p].m_enabled =>
                  Ran(trace', p) = ReplayOrder(m_pools[p].m_objects)]_vars

\* C10 amended: draw() invokes every action of a pool exactly once, in its
\* position among the pool's objects, when the pool is enabled at that draw()
\* and is non-framed, or framed with hasModification() true; an enabled framed
\* pool without modification has its list cleared without any action invoked.
C10_ActionsRunWhenReplayed ==
    [][IsDrawStep =>
          \A p \in PoolIds :
              m_pools[p].m_enabled =>
                  /\ Ran(trace', p) =
                        IF m_pools[p].framed /\ ~hasModification(m_pools[p])
                        THEN <<>>
                        ELSE ReplayOrder(m_pools[p].m_objects)
                  /\ m_pools'[p].m_objects = <<>>]_vars

\* a draw() that rebuilt a framed pool and ran a callback between the bind
\* and a rasterization
C10_Witness ==
    \E p \in FramedIds : \E i, j, k \in 1..Len(trace) :
        /\ i < j /\ j < k
        /\ trace[i].pool = p /\ trace[i].ev = "bind"
        /\ trace[j].pool = p /\ trace[j].ev = "action"
        /\ trace[k].pool = p /\ trace[k].ev = "drawCoords"

(* ------------------------------------------------------------------ *)
(* C11                                                                 *)
(* ------------------------------------------------------------------ *)
\* the drawing call e was made with degenerate arguments: an empty destination
\* or source rect for the textured calls, an empty destination rect for the
\* filled-rect calls, two coincident points for the triangle, an empty rect
\* or a zero line width for the bounding rect
Degenerate(e) ==
    \/ /\ e.op \in {"addTexturedRect", "addUpsideDownTexturedRect",
                    "addRepeatedTexturedRect", "addRepeatedTexturedRepeatedRect"}
       /\ (e.args.dest = 0 \/ e.args.src = 0)
    \/ /\ e.op \in {"addFilledRect", "addRepeatedFilledRect"}
       /\ e.args.dest = 0
    \/ /\ e.op = "addFilledTriangle"
       /\ Cardinality({e.args.points[i] : i \in 1..3}) < 3
    \/ /\ e.op = "addBoundingRect"
       /\ (e.args.dest = 0 \/ e.args.innerLineWidth = 0)

\* this step is a drawing call on pool p
IsCallStep(p) ==
    /\ m_currentPool = p
    /\ Len(log'[p]) = Len(log[p]) + 1
    /\ ~IsUse(log'[p][Len(log'[p])])

\* C11: a drawing call with degenerate arguments leaves the current pool's
\* object list, running content hash and auto-update flag (and every other
\* pool) as they were.
C11_DegenerateNoOp ==
    [][\A p \in PoolIds :
          IsCallStep(p) /\ Degenerate(log'[p][Len(log'[p])]) =>
              /\ m_pools'[p].m_objects = m_pools[p].m_objects
              /\ m_pools'[p].m_status = m_pools[p].m_status
              /\ m_pools'[p].m_autoUpdate = m_pools[p].m_autoUpdate
              /\ m_pools' = m_pools]_vars

\* a degenerate call was just made on a framed pool that holds an object and
\* has a running hash
C11_Witness ==
    \E p \in FramedIds :
        /\ log[p] # <<>>
        /\ ~IsUse(log[p][Len(log[p])])
        /\ Degenerate(log[p][Len(log[p])])
        /\ m_pools[p].m_objects # <<>>
        /\ m_pools[p].m_status[2] # 0

(* ------------------------------------------------------------------ *)
(* C12                                                                 *)
(* ------------------------------------------------------------------ *)
\* this step is removeThing(thing) made right after addThing(thing, pos)
IsRoundTripStep ==
    /\ tileLast.op = "addThing"
    /\ tileLast'.op = "removeThing"
    /\ tileLast'.arg = tileLast.arg

\* C12: removeThing(thing) made right after addThing(thing, pos) leaves every
\* CountFlag counter at the value it had before the addThing, and every slot
\* of the coverage cache at UNCOMPUTED.
C12_CountFlagRoundTrip ==
    [][IsRoundTripStep =>
          /\ tile'.m_countFlag = tileLast.countBefore
          /\ \A z \in Floors : tile'.m_completelyCoveredCache[z] = UNCOMPUTED]_vars

\* a thing was put on a tile that held another thing and a computed cache
\* slot, and was taken off again
C12_Witness ==
    /\ tileLast.op = "removeThing"
    /\ tileLast.prev.op = "addThing"
    /\ tileLast.prev.arg = tileLast.arg
    /\ tileLast.prev.cachedBefore
    /\ tile.m_things # <<>>
    /\ \E c \in CountNames : tile.m_countFlag[c] # 0
    /\ \E c \in CountNames : Weight(tileLast.arg, c) # 0 /\ tile.m_countFlag[c] = 0

(* ------------------------------------------------------------------ *)
(* C13                                                                 *)
(* ------------------------------------------------------------------ *)
\* event e belongs to the rebuild of a framebuffer, given the pool table
IsPreDraw(pools, e) ==
    \/ e.ev \in {"bind", "release"}
    \/ e.ev \in {"drawCoords", "action"} /\ pools[e.pool].framed

\* event e belongs to the composite step of a pool
IsComposite(pools, e) == ~IsPreDraw(pools, e)

\* the composite of framed pool p: save, before-callback if set, one blit
\* with the recorded rects, after-callback if set, restore
ExpectedComposite(p, pool) ==
    <<Event("saveAndResetState", p, 0)>>
    \o (IF pool.m_beforeDraw THEN <<Event("beforeDraw", p, 0)>> ELSE <<>>)
    \o <<Event("framebufferDraw", p, <<pool.m_dest, pool.m_src>>)>>
    \o (IF pool.m_afterDraw THEN <<Event("afterDraw", p, 0)>> ELSE <<>>)
    \o <<Event("restoreSavedState", p, 0)>>

\* the positions of tr that hold composite events of pool p
CompositeAt(pools, tr, p) ==
    {i \in 1..Len(tr) : tr[i].pool = p /\ IsComposite(pools, tr[i])}

\* C13: in every draw() the rebuild of every framed pool's framebuffer ends
\* before the composite step of any pool starts; the composite of each enabled
\* framed pool is, without anything between, save-and-reset, the before
\* callback if set, one blit with the pool's recorded dest and src, the after
\* callback if set, restore; and both phases take the pools in table order.
C13_TwoPhase ==
    [][IsDrawStep =>
          LET tr == trace'
          IN  /\ \A i, j \in 1..Len(tr) :
                    IsPreDraw(m_pools, tr[i]) /\ IsComposite(m_pools, tr[j])
                       => i < j
              /\ \A i, j \in 1..Len(tr) :
                    /\ i < j
                    /\ IsPreDraw(m_pools, tr[i]) = IsPreDraw(m_pools, tr[j])
                    => tr[i].pool <= tr[j].pool
              /\ \A p \in PoolIds :
                    m_pools[p].framed =>
                        LET at == CompositeAt(m_pools, tr, p)
                            want == ExpectedComposite(p, m_pools[p])
                        IN  IF m_pools[p].m_enabled
                            THEN \E first \in 1..Len(tr) :
                                    /\ at = first..(first + Len(want) - 1)
                                    /\ Slice(tr, first, first + Len(want) - 1)
                                          = want
                            ELSE at = {}]_vars

\* a draw() that rebuilt two framed pools with different recorded rects and
\* then composited both
C13_Witness ==
    \E p, q \in PoolIds :
        /\ p < q
        /\ EventsOf(trace, "bind", p) # {} /\ EventsOf(trace, "bind", q) # {}
        /\ \E i \in EventsOf(trace, "framebufferDraw", p),
              j \in EventsOf(trace, "framebufferDraw", q) :
                trace[i].arg # trace[j].arg

(* ------------------------------------------------------------------ *)
(* C14                                                                 *)
(* ------------------------------------------------------------------ *)
\* s without its last element
Front(s) == [k \in 1..(Len(s) - 1) |-> s[k]]

\* what the add of this step on pool p left of the methods that the object
\* trailing before the call held
KeptOfTrailing(p) ==
    LET old == m_pools[p].m_objects
        new == m_pools'[p].m_objects
    IN  IF Len(new) = Len(old) THEN Front(new[Len(old)].drawMethods)
        ELSE new[Len(old)].drawMethods

\* the add of this step on pool p touched the trailing object only, and took
\* from it nothing, or the first of its methods that satisfies Match
RemovesFirst(p, Match(_, _, _)) ==
    LET old == m_pools[p].m_objects
        new == m_pools'[p].m_objects
        n == Len(old)
        c == StepCall(p)
    IN  /\ Len(new) \in {n, n + 1}
        /\ \A k \in 1..(n - 1) : new[k] = old[k]
        /\ n >= 1 =>
              LET before == old[n].drawMethods
                  kept == KeptOfTrailing(p)
              IN  /\ new[n].state = old[n].state
                  /\ \/ kept = before
                     \/ \E i \in 1..Len(before) :
                           /\ Match(old[n], before[i], c)
                           /\ \A j \in 1..(i - 1) : ~Match(old[n], before[j], c)
                           /\ kept = EraseAt(before, i)

\* method mtd has the non-null destination of the call c
SameDest(obj, mtd, c) == c.method.dest # 0 /\ mtd.dest = c.method.dest

\* method mtd of object obj has the non-null destination of the call c, and
\* either c has obj's state and mtd's source rect, or c's texture is opaque
\* and obj's texture can be superimposed
Hidden(obj, mtd, c) ==
    /\ SameDest(obj, mtd, c)
    /\ \/ obj.state = c.state /\ mtd.rects[2] = c.method.rects[2]
       \/ isOpaque(c.state.texture) /\ canSuperimposed(obj.state.texture)

\* C14 as stated: an add call leaves every object but the trailing one as it
\* was, and removes at most one method: the first method of the trailing
\* object with the destination of the new method.
C14_RemovesFirstSameDest ==
    [][\A p \in PoolIds : IsAddStep(p) => RemovesFirst(p, SameDest)]_vars

\* C14 amended: an add call leaves every object but the trailing one as it
\* was, also one that holds an identical method at the same destination, and
\* removes at most one method: the first method of the trailing object that
\* has the new method's destination and also the same source rect under an
\* equal state, or an image a new opaque texture can be superimposed on.
C14_RemovesFirstHidden ==
    [][\A p \in PoolIds : IsAddStep(p) => RemovesFirst(p, Hidden)]_vars

\* an add whose method, with a non-null destination, is also held by an
\* object that was not the trailing one at the call
C14_Witness ==
    \E p \in PoolIds :
        LET objs == m_pools[p].m_objects
        IN  /\ log[p] # <<>>
            /\ IsAdd(log[p][Len(log[p])])
            /\ log[p][Len(log[p])].method.dest # 0
            /\ \E k \in 1..(Len(objs) - 2) :
                  \E i \in 1..Len(objs[k].drawMethods) :
                      objs[k].drawMethods[i] = log[p][Len(log[p])].method

(* ------------------------------------------------------------------ *)
(* C15                                                                 *)
(* ------------------------------------------------------------------ *)
\* this step is an add or addRepeated call on pool p
IsDrawCallStep(p) ==
    /\ m_currentPool = p
    /\ Len(log'[p]) = Len(log[p]) + 1
    /\ IsDrawCall(log'[p][Len(log'[p])])

\* C15: an add or addRepeated call on a pool that is not framed leaves the
\* running hash, the committed hash and the auto-update flag of every pool as
\* they were, also when its state has a shader program; on a framed pool it
\* folds the hash of the state and method into that pool's running hash and
\* into nothing else, whether or not the call removes an earlier method.
C15_HashOnlyFramed ==
    [][\A p \in PoolIds :
          IsDrawCallStep(p) =>
              LET c == StepCall(p)
              IN  /\ \A q \in PoolIds \ {p} :
                        /\ m_pools'[q].m_status = m_pools[q].m_status
                        /\ m_pools'[q].m_autoUpdate = m_pools[q].m_autoUpdate
                  /\ m_pools'[p].m_status[1] = m_pools[p].m_status[1]
                  /\ IF m_pools[p].framed
                     THEN /\ m_pools'[p].m_status[2]
                               = hash_combine(m_pools[p].m_status[2],
                                              MethodHash(c.state, c.method))
                          /\ m_pools'[p].m_autoUpdate
                               = (m_pools[p].m_autoUpdate
                                     \/ c.state.shaderProgram)
                     ELSE /\ m_pools'[p].m_status[2] = m_pools[p].m_status[2]
                          /\ m_pools'[p].m_autoUpdate
                               = m_pools[p].m_autoUpdate]_vars

\* a call with a shader program was made on a pool that is not framed, while
\* a framed pool holds a running hash
C15_Witness ==
    \E p, q \in PoolIds :
        /\ ~m_pools[p].framed /\ m_currentPool = p
        /\ log[p] # <<>>
        /\ IsDrawCall(log[p][Len(log[p])])
        /\ log[p][Len(log[p])].state.shaderProgram
        /\ ~m_pools[p].m_autoUpdate
        /\ m_pools[q].framed /\ m_pools[q].m_status[2] # 0

(* ------------------------------------------------------------------ *)
(* C16                                                                 *)
(* ------------------------------------------------------------------ *)
\* this step is a use call that selected pool p
IsUseStep(p) ==
    /\ Len(log'[p]) = Len(log[p]) + 1
    /\ IsUse(log'[p][Len(log'[p])])

\* C16: use(pool) makes pool, or the UNKNOW pool when pool is null, the current
\* pool, sets that pool's working state to the baseline and, if it is framed,
\* its running hash to zero; the object list and the committed hash of every
\* pool, and every other pool altogether, stay as they were.  The use of a
\* framed pool with dest and src also records the two rects and leaves the
\* pool's working state with alpha writing off.
C16_EffectOfUse ==
    [][\A p \in PoolIds :
          IsUseStep(p) =>
              LET e == StepCall(p)
                  old == m_pools[p]
                  new == m_pools'[p]
              IN  /\ p = (IF e.id # 0 THEN e.id ELSE UNKNOW)
                  /\ m_currentPool' = p
                  /\ new.m_state =
                        IF e.op = "useFramed"
                        THEN [BaseState EXCEPT !.alphaWriting = FALSE]
                        ELSE BaseState
                  /\ new.m_status =
                        IF old.framed THEN <<old.m_status[1], 0>>
                        ELSE old.m_status
                  /\ new.m_objects = old.m_objects
                  /\ e.op = "useFramed" =>
                        /\ new.m_dest = e.method.rects[1]
                        /\ new.m_src = e.method.rects[2]
                  /\ \A q \in PoolIds \ {p} : m_pools'[q] = m_pools[q]]_vars

\* a plain use of a framed pool that holds an object, a committed hash from
\* the frame before and the rects of an earlier use with dest and src
C16_Witness ==
    \E p \in PoolIds :
        /\ m_pools[p].framed /\ m_currentPool = p
        /\ Len(log[p]) >= 2
        /\ log[p][Len(log[p])].op = "use"
        /\ IsDrawCall(log[p][Len(log[p]) - 1])
        /\ m_pools[p].m_objects # <<>>
        /\ m_pools[p].m_status[1] # 0
        /\ m_pools[p].m_dest # 0
        /\ m_pools[p].m_state = BaseState

(* ------------------------------------------------------------------ *)
(* C17                                                                 *)
(* ------------------------------------------------------------------ *)
\* this step is a call of isCompletelyCovered
IsQueryStep == tileLast'.op = "isCompletelyCovered"

\* C17: every slot of the completely-covered cache holds UNCOMPUTED, COVERED
\* or NOT_COVERED; a slot leaves UNCOMPUTED only in a query, which stores the
\* result in the slot of the current floor and changes no other slot, and
\* changes none while no floor was queried yet; and every step that changes
\* the thing stack leaves all slots UNCOMPUTED.
C17_CacheStateMachine ==
    [][LET old == tile.m_completelyCoveredCache
           new == tile'.m_completelyCoveredCache
       IN  /\ \A z \in Floors : new[z] \in {UNCOMPUTED, COVERED, NOT_COVERED}
           /\ \A z \in Floors :
                 old[z] = UNCOMPUTED /\ new[z] # UNCOMPUTED =>
                     /\ IsQueryStep
                     /\ tile'.m_currentFirstVisibleFloor = z
                     /\ \A y \in Floors \ {z} : new[y] = old[y]
           /\ IsQueryStep /\ tile'.m_currentFirstVisibleFloor = UINT8_MAX
                 => new = old
           /\ tile'.m_things # tile.m_things
                 => \A z \in Floors : new[z] = UNCOMPUTED]_vars

\* after the last change of the thing stack two floors were queried, one
\* found covered and one not
C17_Witness ==
    /\ tile.m_things # <<>>
    /\ tileLast.op = "isCompletelyCovered"
    /\ \E y, z \in Floors :
          /\ tile.m_completelyCoveredCache[y] = COVERED
          /\ tile.m_completelyCoveredCache[z] = NOT_COVERED

(* ------------------------------------------------------------------ *)
(* C18                                                                 *)
(* ------------------------------------------------------------------ *)
\* C18: at every draw() after the first, an enabled framed pool whose object
\* list differs from the list it held at the draw() before is found modified,
\* and its framebuffer is rebuilt from the list before it is composited.  (A
\* run of one or two calls folds no two different inputs, so no hash
\* collision takes part in the shortest violations.)
C18_DifferingListsRebuilt ==
    [][IsDrawStep /\ frame >= 1 =>
          \A p \in PoolIds :
              /\ m_pools[p].framed /\ m_pools[p].m_enabled
              /\ m_pools[p].m_objects # prevObjects.lists[p]
              => /\ hasModification(m_pools[p])
                 /\ RebuiltFrom(trace', p, m_pools[p].m_objects)]_vars

(* ------------------------------------------------------------------ *)
(* C19                                                                 *)
(* ------------------------------------------------------------------ *)
\* C19: in every reachable state, every DrawObject that carries a deferred
\* action has an empty method list (so no method given to add or addRepeated
\* sits in an object whose replay runs the action and rasterizes nothing).
C19_ActionObjectsHoldNoMethods ==
    \A p \in PoolIds :
        \A i \in 1..Len(m_pools[p].m_objects) :
            m_pools[p].m_objects[i].action # NoAction
               => m_pools[p].m_objects[i].drawMethods = <<>>

(* ------------------------------------------------------------------ *)
(* C20                                                                 *)
(* ------------------------------------------------------------------ *)
\* C20: in every reachable state, every DrawObject that holds more than one
\* method has the draw mode Triangles, also an object that add created with
\* TriangleStrip and addRepeated appended to.
C20_MergedObjectsUseTriangles ==
    \A p \in PoolIds :
        \A i \in 1..Len(m_pools[p].m_objects) :
            Len(m_pools[p].m_objects[i].drawMethods) > 1
               => m_pools[p].m_objects[i].drawMode = "Triangles"

(* ------------------------------------------------------------------ *)
(* C21                                                                 *)
(* ------------------------------------------------------------------ *)
\* C21: in every reachable state, the last operation on the tile read and
\* wrote the per-floor arrays only with indices in 0..MAX_Z; isCovered() on a
\* tile for which no floor was recorded too.
C21_IndexInBounds == tileLast.indices \subseteq Floors

====
